---- MODULE Spec2Model ----
(***************************************************************************)
(* The pseudo-table detector of backend/app/services/parsers/ppt_shapes.py *)
(* (PseudoTableParser) as a state machine: a call of parse walks through   *)
(* the filter, the row-based strategy and the column-based strategy, one   *)
(* helper method per step.  The helper methods are operators computed the  *)
(* way the Python code computes them.                                      *)
(*                                                                         *)
(* Python values are tagged: <<"str", chars>>, <<"num", n>>, <<"none">>.   *)
(* A text is a sequence of one-character strings, so that str.strip() is   *)
(* computed and not assumed.  A raw shape dictionary is a function whose   *)
(* domain is the set of keys it holds.  Coordinates are integers; ratios   *)
(* (0.7, the score) are compared and rounded as exact fractions.           *)
(***************************************************************************)
EXTENDS Integers, Sequences, FiniteSets, TLC

(***************************************************************************)
(* Bounds of the model.                                                    *)
(***************************************************************************)
MaxRows == 3
MaxCols == 3
MaxTol == 1
\* parse calls on one parser instance
MaxCalls == 2

(***************************************************************************)
(* Program constants.                                                      *)
(***************************************************************************)
DefaultMinRows == 3
DefaultMinCols == 2
\* 0.7 in tenths: the consistency and the density thresholds
ThresholdTenths == 7
\* the weights 0.3, 0.3, 0.4 in tenths
AlignWeightTenths == 3
DensityWeightTenths == 4

(***************************************************************************)
(* Python values.                                                          *)
(***************************************************************************)
NoneVal == <<"none">>
\* an Optional[...] value that is not None
Some(v) == <<"some", v>>
Str(t) == <<"str", t>>
Num(n) == <<"num", n>>
IsStr(v) == v[1] = "str"
IsNum(v) == v[1] = "num"

Abs(n) == IF n < 0 THEN -n ELSE n

Whitespace == {" ", "\t", "\n"}

RECURSIVE LStrip(_)
LStrip(t) == IF t # <<>> /\ Head(t) \in Whitespace THEN LStrip(Tail(t)) ELSE t

RECURSIVE RStrip(_)
RStrip(t) ==
    IF t # <<>> /\ t[Len(t)] \in Whitespace
    THEN RStrip(SubSeq(t, 1, Len(t) - 1))
    ELSE t

\* str.strip()
Strip(t) == RStrip(LStrip(t))

\* dict.get(k, d)
DictGet(s, k, d) == IF k \in DOMAIN s THEN s[k] ELSE d

RECURSIVE SumSeq(_)
SumSeq(q) == IF q = <<>> THEN 0 ELSE Head(q) + SumSeq(Tail(q))

RECURSIVE Flatten(_)
Flatten(qq) == IF qq = <<>> THEN <<>> ELSE Head(qq) \o Flatten(Tail(qq))

MinOf(S) == CHOOSE x \in S : \A y \in S : x <= y
MaxOf(S) == CHOOSE x \in S : \A y \in S : x >= y

Range(q) == {q[i] : i \in 1..Len(q)}

(***************************************************************************)
(* sorted(..., key=...) and list.sort(key=...): stable.                    *)
(***************************************************************************)
KeyLe(mode, a, b) ==
    CASE mode = "top_left" -> a.top < b.top \/ (a.top = b.top /\ a.left <= b.left)
      [] mode = "left_top" -> a.left < b.left \/ (a.left = b.left /\ a.top <= b.top)
      [] mode = "left" -> a.left <= b.left
      [] mode = "top" -> a.top <= b.top
      [] mode = "num" -> a <= b

\* x goes behind every element whose key is not greater: equal keys keep
\* the order they came in
InsertSorted(q, x, mode) ==
    LET k == Cardinality({i \in 1..Len(q) : KeyLe(mode, q[i], x)})
    IN SubSeq(q, 1, k) \o <<x>> \o SubSeq(q, k + 1, Len(q))

RECURSIVE Sorted(_, _)
Sorted(q, mode) ==
    IF q = <<>> THEN <<>>
    ELSE InsertSorted(Sorted(SubSeq(q, 1, Len(q) - 1), mode), q[Len(q)], mode)

(***************************************************************************)
(* parse, lines 77-84: the records that become ShapeGeometry models.       *)
(***************************************************************************)
GeometryKeys == {"top", "left", "width", "height"}

\* ShapeGeometry(**s) validates: every field present, text a str, the
\* geometry numeric (pydantic raises ValidationError, a ValueError)
ShapeGeometryValid(s) ==
    /\ "text" \in DOMAIN s /\ IsStr(s["text"])
    /\ \A k \in GeometryKeys : k \in DOMAIN s /\ IsNum(s[k])

ShapeGeometry(s) ==
    [text |-> s["text"][2], top |-> s["top"][2], left |-> s["left"][2],
     width |-> s["width"][2], height |-> s["height"][2]]

\* faulty variant: the text is tested without .strip()
ValidateRecordUnstripped(s) ==
    LET t == DictGet(s, "text", Str(<<>>))
    IN IF ~IsStr(t) THEN "raise"
       ELSE IF t[2] = <<>> THEN "skip"
       ELSE IF ShapeGeometryValid(s) THEN "append"
       ELSE "skip"

\* one turn of the loop: "append", "skip" (falsy text, or the ValueError
\* caught), or "raise" (s.get("text", "") is not a str: no .strip())
ValidateRecord(s) ==
    LET t == DictGet(s, "text", Str(<<>>))
    IN IF ~IsStr(t) THEN "raise"
       ELSE IF Strip(t[2]) = <<>> THEN "skip"
       ELSE IF ShapeGeometryValid(s) THEN "append"
       ELSE "skip"

RECURSIVE ValidatedFrom(_, _, _)
ValidatedFrom(shapes, i, acc) ==
    IF i > Len(shapes) THEN [raised |-> FALSE, shapes |-> acc]
    ELSE LET v == ValidateRecord(shapes[i])
         IN IF v = "raise" THEN [raised |-> TRUE, shapes |-> <<>>]
            ELSE IF v = "append"
                 THEN ValidatedFrom(shapes, i + 1, Append(acc, ShapeGeometry(shapes[i])))
                 ELSE ValidatedFrom(shapes, i + 1, acc)

validate_shapes(shapes) == ValidatedFrom(shapes, 1, <<>>)

(***************************************************************************)
(* Row-based strategy.                                                     *)
(***************************************************************************)
RECURSIVE ClusterFrom(_, _, _, _, _, _, _)
\* faulty variant: a shape is compared with the shape before it, not with
\* the first shape of the group
ClusterFromNeighbour(shapes, i, groups, current, anchor, axis, tol) ==
    IF i > Len(shapes) THEN Append(groups, current)
    ELSE LET s == shapes[i]
         IN IF Abs(s[axis] - shapes[i - 1][axis]) <= tol
            THEN ClusterFrom(shapes, i + 1, groups, Append(current, s), anchor, axis, tol)
            ELSE ClusterFrom(shapes, i + 1, Append(groups, current), <<s>>, s[axis], axis, tol)

ClusterFrom(shapes, i, groups, current, anchor, axis, tol) ==
    IF i > Len(shapes) THEN Append(groups, current)
    ELSE LET s == shapes[i]
         IN IF Abs(s[axis] - anchor) <= tol
            THEN ClusterFrom(shapes, i + 1, groups, Append(current, s), anchor, axis, tol)
            ELSE ClusterFrom(shapes, i + 1, Append(groups, current), <<s>>, s[axis], axis, tol)

cluster_rows(self, shapes) ==
    IF shapes = <<>> THEN <<>>
    ELSE LET raw == ClusterFrom(shapes, 2, <<>>, <<shapes[1]>>, shapes[1].top,
                                "top", self.y_tolerance)
         IN [i \in 1..Len(raw) |-> Sorted(raw[i], "left")]

RECURSIVE CentersFrom(_, _, _, _)
\* faulty variant: a value is compared with the value before it, not with
\* the last accepted center
CentersFromNeighbour(values, i, centers, tol) ==
    IF i > Len(values) THEN centers
    ELSE IF Abs(values[i] - values[i - 1]) > tol
         THEN CentersFrom(values, i + 1, Append(centers, values[i]), tol)
         ELSE CentersFrom(values, i + 1, centers, tol)

CentersFrom(values, i, centers, tol) ==
    IF i > Len(values) THEN centers
    ELSE IF Abs(values[i] - centers[Len(centers)]) > tol
         THEN CentersFrom(values, i + 1, Append(centers, values[i]), tol)
         ELSE CentersFrom(values, i + 1, centers, tol)

\* faulty variant: the left values are clustered in the order of the rows, unsorted
detect_columns_unsorted(self, rows) ==
    LET flat == Flatten(rows)
        all_lefts == [i \in 1..Len(flat) |-> flat[i].left]
    IN IF all_lefts = <<>> THEN <<>>
       ELSE CentersFrom(all_lefts, 2, <<all_lefts[1]>>, self.x_tolerance)

\* faulty variant: the centers are taken from the lefts of the first row alone
detect_columns_of_first_row(self, rows) ==
    LET all_lefts == IF rows = <<>> THEN <<>>
                     ELSE Sorted([i \in 1..Len(rows[1]) |-> rows[1][i].left], "num")
    IN IF all_lefts = <<>> THEN <<>>
       ELSE CentersFrom(all_lefts, 2, <<all_lefts[1]>>, self.x_tolerance)

detect_columns(self, rows) ==
    LET flat == Flatten(rows)
        all_lefts == Sorted([i \in 1..Len(flat) |-> flat[i].left], "num")
    IN IF all_lefts = <<>> THEN <<>>
       ELSE CentersFrom(all_lefts, 2, <<all_lefts[1]>>, self.x_tolerance)

\* twice statistics.median of a non-empty list of integers
Median2(q) ==
    LET s == Sorted(q, "num")
        n == Len(s)
    IN IF n % 2 = 1 THEN 2 * s[(n + 1) \div 2] ELSE s[n \div 2] + s[(n \div 2) + 1]

\* faulty variant: the density of the grid is not tested
GridIsValidWithoutDensity(groups, positions) ==
    LET lengths == [i \in 1..Len(groups) |-> Len(groups[i])]
        median2 == Median2(lengths)
        consistent == Cardinality({i \in 1..Len(lengths) :
                                      Abs(2 * lengths[i] - median2) <= 2})
    IN 10 * consistent >= ThresholdTenths * Len(groups)

\* faulty variant: the consistency of the group lengths is not tested
GridIsValidWithoutConsistency(groups, positions) ==
    LET total_shapes == SumSeq([i \in 1..Len(groups) |-> Len(groups[i])])
        expected_cells == Len(groups) * Len(positions)
    IN /\ expected_cells > 0
       /\ 10 * total_shapes >= ThresholdTenths * expected_cells

\* _validate_grid and _validate_column_grid are the same computation on the
\* group lengths and the number of detected positions
GridIsValid(groups, positions) ==
    LET lengths == [i \in 1..Len(groups) |-> Len(groups[i])]
        median2 == Median2(lengths)
        consistent == Cardinality({i \in 1..Len(lengths) :
                                      Abs(2 * lengths[i] - median2) <= 2})
        total_shapes == SumSeq(lengths)
        expected_cells == Len(groups) * Len(positions)
    IN /\ 10 * consistent >= ThresholdTenths * Len(groups)
       /\ expected_cells > 0
       /\ 10 * total_shapes >= ThresholdTenths * expected_cells

validate_grid(self, rows, columns) == GridIsValid(rows, columns)

\* round(x, 2) of the fraction num/den (den > 0), in hundredths; Python
\* rounds an exact tie to the even neighbour
Round2(num, den) ==
    LET q == (100 * num) \div den
        r == (100 * num) % den
    IN IF 2 * r > den THEN q + 1
       ELSE IF 2 * r = den THEN q + (q % 2)
       ELSE q

\* max(0.0, min(1.0, score)) of the fraction num/den (den > 0)
Clamp01(f) ==
    IF f.num < 0 THEN [num |-> 0, den |-> 1]
    ELSE IF f.num > f.den THEN [num |-> 1, den |-> 1]
    ELSE f

\* the spreads max - min of the groups that hold more than one shape
Spreads(groups, axis) ==
    LET idx == {i \in 1..Len(groups) : Len(groups[i]) > 1}
        spread(g) == LET vals == {g[j][axis] : j \in 1..Len(g)}
                     IN MaxOf(vals) - MinOf(vals)
    IN [n |-> Cardinality(idx),
        sum |-> SumSeq([i \in 1..Len(groups) |->
                           IF i \in idx THEN spread(groups[i]) ELSE 0])]

\* faulty variant: the division is made for an empty list of deviations too
AlignmentScoreUnguarded(devs, tol) ==
    IF tol * 2 = 0 THEN [raised |-> TRUE, num |-> 0, den |-> 1]
    ELSE IF devs.n = 0 THEN [raised |-> FALSE, num |-> 1, den |-> 1]
    ELSE [raised |-> FALSE, num |-> devs.n * tol * 2 - devs.sum,
          den |-> devs.n * tol * 2]

\* 1.0 - (statistics.mean(devs) / (tol * 2)) if devs else 1.0
\* the division raises ZeroDivisionError when devs is not empty and tol is 0
AlignmentScore(devs, tol) ==
    IF devs.n = 0 THEN [raised |-> FALSE, num |-> 1, den |-> 1]
    ELSE IF tol * 2 = 0 THEN [raised |-> TRUE, num |-> 0, den |-> 1]
    ELSE [raised |-> FALSE, num |-> devs.n * tol * 2 - devs.sum,
          den |-> devs.n * tol * 2]

\* faulty variant: the blend is rounded but not clamped to [0, 1]
BlendScoreUnclamped(a, b, total, expected) ==
    IF a.raised \/ b.raised \/ expected = 0
    THEN [raised |-> TRUE, value |-> 0]
    ELSE [raised |-> FALSE,
          value |-> Round2(AlignWeightTenths * a.num * b.den * expected
                           + AlignWeightTenths * b.num * a.den * expected
                           + DensityWeightTenths * total * a.den * b.den,
                           10 * a.den * b.den * expected)]

\* (a * 0.3) + (b * 0.3) + (density * 0.4), clamped and rounded; the value
\* is in hundredths
BlendScore(a, b, total, expected) ==
    IF a.raised \/ b.raised \/ expected = 0
    THEN [raised |-> TRUE, value |-> 0]
    ELSE LET num == AlignWeightTenths * a.num * b.den * expected
                    + AlignWeightTenths * b.num * a.den * expected
                    + DensityWeightTenths * total * a.den * b.den
             den == 10 * a.den * b.den * expected
             c == Clamp01([num |-> num, den |-> den])
         IN [raised |-> FALSE, value |-> Round2(c.num, c.den)]

\* the shapes within tol of each detected position, one group per position
NearGroups(shapes, positions, axis, tol) ==
    [p \in 1..Len(positions) |->
        SelectSeq(shapes, LAMBDA s : Abs(s[axis] - positions[p]) <= tol)]

calculate_confidence_score(self, rows, columns) ==
    LET row_devs == Spreads(rows, "top")
        row_score == AlignmentScore(row_devs, self.y_tolerance)
        col_devs == Spreads(NearGroups(Flatten(rows), columns, "left",
                                       self.x_tolerance), "left")
        col_score == AlignmentScore(col_devs, self.x_tolerance)
        total == Len(Flatten(rows))
        expected == Len(rows) * Len(columns)
    IN BlendScore(row_score, col_score, total, expected)

\* the first position at the least distance from v (dist < min_dist)
Nearest(v, positions) ==
    CHOOSE i \in 1..Len(positions) :
        /\ \A j \in 1..Len(positions) :
              Abs(v - positions[i]) <= Abs(v - positions[j])
        /\ \A j \in 1..(i - 1) : Abs(v - positions[j]) > Abs(v - positions[i])

RECURSIVE PlaceRow(_, _, _, _, _)
PlaceRow(row, i, grid_row, columns, tol) ==
    IF i > Len(row) THEN grid_row
    ELSE LET shape == row[i]
             best_col == Nearest(shape.left, columns)
         IN IF Abs(shape.left - columns[best_col]) <= tol
            THEN PlaceRow(row, i + 1,
                          [grid_row EXCEPT ![best_col] = Str(Strip(shape.text))],
                          columns, tol)
            ELSE PlaceRow(row, i + 1, grid_row, columns, tol)

\* faulty variant: a grid row holds one cell per shape of the row
extract_grid_data_ragged(self, rows, columns) ==
    [r \in 1..Len(rows) |->
        [i \in 1..Len(rows[r]) |-> Str(Strip(rows[r][i].text))]]

extract_grid_data(self, rows, columns) ==
    [r \in 1..Len(rows) |->
        PlaceRow(rows[r], 1, [c \in 1..Len(columns) |-> NoneVal], columns,
                 self.x_tolerance)]

\* faulty variant: the right and bottom edges are taken from left and top
\* alone
calculate_bbox_of_corners(shapes) ==
    LET idx == 1..Len(shapes)
    IN << MinOf({shapes[i].left : i \in idx}),
          MinOf({shapes[i].top : i \in idx}),
          MaxOf({shapes[i].left : i \in idx}),
          MaxOf({shapes[i].top : i \in idx}) >>

calculate_bbox(shapes) ==
    LET idx == 1..Len(shapes)
    IN << MinOf({shapes[i].left : i \in idx}),
          MinOf({shapes[i].top : i \in idx}),
          MaxOf({shapes[i].left + shapes[i].width : i \in idx}),
          MaxOf({shapes[i].top + shapes[i].height : i \in idx}) >>

PseudoTable(confidence, bbox, grid_data) ==
    [type |-> "pseudo_table", confidence_score |-> confidence,
     bbox |-> bbox, data |-> grid_data]

(***************************************************************************)
(* Column-based strategy.                                                  *)
(***************************************************************************)
cluster_columns(self, shapes) ==
    IF shapes = <<>> THEN <<>>
    ELSE LET raw == ClusterFrom(shapes, 2, <<>>, <<shapes[1]>>, shapes[1].left,
                                "left", self.x_tolerance)
         IN [i \in 1..Len(raw) |-> Sorted(raw[i], "top")]

\* faulty variant: the rows are detected from the tops of the first column
\* alone
detect_rows_in_first_column(self, columns) ==
    LET all_tops == IF columns = <<>> THEN <<>>
                    ELSE Sorted([i \in 1..Len(columns[1]) |-> columns[1][i].top], "num")
    IN IF all_tops = <<>> THEN <<>>
       ELSE CentersFrom(all_tops, 2, <<all_tops[1]>>, self.y_tolerance)

detect_rows_in_columns(self, columns) ==
    LET flat == Flatten(columns)
        all_tops == Sorted([i \in 1..Len(flat) |-> flat[i].top], "num")
    IN IF all_tops = <<>> THEN <<>>
       ELSE CentersFrom(all_tops, 2, <<all_tops[1]>>, self.y_tolerance)

validate_column_grid(self, columns, rows) == GridIsValid(columns, rows)

\* the first shape of the column at the least distance from row_y
NearestShape(column, row_y) ==
    CHOOSE i \in 1..Len(column) :
        /\ \A j \in 1..Len(column) :
              Abs(column[i].top - row_y) <= Abs(column[j].top - row_y)
        /\ \A j \in 1..(i - 1) :
              Abs(column[j].top - row_y) > Abs(column[i].top - row_y)

\* faulty variant: the text is placed as it is, without .strip()
transpose_columns_to_rows_unstripped(self, columns, rows) ==
    [r \in 1..Len(rows) |->
        [c \in 1..Len(columns) |->
            IF columns[c] = <<>> THEN NoneVal
            ELSE LET best_shape == columns[c][NearestShape(columns[c], rows[r])]
                 IN IF Abs(best_shape.top - rows[r]) <= self.y_tolerance
                    THEN Str(best_shape.text)
                    ELSE NoneVal]]

transpose_columns_to_rows(self, columns, rows) ==
    [r \in 1..Len(rows) |->
        [c \in 1..Len(columns) |->
            IF columns[c] = <<>> THEN NoneVal
            ELSE LET best_shape == columns[c][NearestShape(columns[c], rows[r])]
                 IN IF Abs(best_shape.top - rows[r]) <= self.y_tolerance
                    THEN Str(Strip(best_shape.text))
                    ELSE NoneVal]]

calculate_column_confidence_score(self, columns, rows) ==
    LET col_devs == Spreads(columns, "left")
        col_score == AlignmentScore(col_devs, self.x_tolerance)
        row_devs == Spreads(NearGroups(Flatten(columns), rows, "top",
                                       self.y_tolerance), "top")
        row_score == AlignmentScore(row_devs, self.y_tolerance)
        total == Len(Flatten(columns))
        expected == Len(columns) * Len(rows)
    IN BlendScore(col_score, row_score, total, expected)

(***************************************************************************)
(* parse and its two strategies as functions of the input: what a call     *)
(* returns ("returned", the list) or raises ("raised", the exception).     *)
(***************************************************************************)
Returned(v) == [status |-> "returned", value |-> v]
Raised(e) == [status |-> "raised", value |-> e]

try_row_based_detection(self, validated_shapes) ==
    LET sorted_shapes == Sorted(validated_shapes, "top_left")
        rows == cluster_rows(self, sorted_shapes)
        columns == detect_columns(self, rows)
        confidence == calculate_confidence_score(self, rows, columns)
    IN IF Len(rows) < self.min_rows THEN Returned(<<>>)
       ELSE IF Len(columns) < self.min_cols THEN Returned(<<>>)
       ELSE IF ~validate_grid(self, rows, columns) THEN Returned(<<>>)
       ELSE IF confidence.raised THEN Raised("ZeroDivisionError")
       ELSE Returned(<<PseudoTable(confidence.value, calculate_bbox(sorted_shapes),
                                   extract_grid_data(self, rows, columns))>>)

try_column_based_detection(self, validated_shapes) ==
    LET sorted_shapes == Sorted(validated_shapes, "left_top")
        columns == cluster_columns(self, sorted_shapes)
        rows == detect_rows_in_columns(self, columns)
        confidence == calculate_column_confidence_score(self, columns, rows)
    IN IF Len(columns) < self.min_cols THEN Returned(<<>>)
       ELSE IF Len(rows) < self.min_rows THEN Returned(<<>>)
       ELSE IF ~validate_column_grid(self, columns, rows) THEN Returned(<<>>)
       ELSE IF confidence.raised THEN Raised("ZeroDivisionError")
       ELSE Returned(<<PseudoTable(confidence.value, calculate_bbox(sorted_shapes),
                                   transpose_columns_to_rows(self, columns, rows))>>)

parse(self, shapes) ==
    LET v == validate_shapes(shapes)
        row_based_result == try_row_based_detection(self, v.shapes)
        column_based_result == try_column_based_detection(self, v.shapes)
    IN IF v.raised THEN Raised("AttributeError")
       ELSE IF Len(v.shapes) < self.min_rows * self.min_cols THEN Returned(<<>>)
       ELSE IF row_based_result.status = "raised" THEN row_based_result
       ELSE IF row_based_result.value # <<>> THEN row_based_result
       ELSE column_based_result

(***************************************************************************)
(* The legacy parser, backend/pseudo_table_parser.py: one strategy, on the *)
(* shape dictionaries themselves, None when no table is found.             *)
(***************************************************************************)
\* [shape for shape in shapes if shape.get("text", "").strip()]
RECURSIVE LegacyFilterFrom(_, _, _)
LegacyFilterFrom(shapes, i, acc) ==
    IF i > Len(shapes) THEN [raised |-> FALSE, shapes |-> acc]
    ELSE LET t == DictGet(shapes[i], "text", Str(<<>>))
         IN IF ~IsStr(t) THEN [raised |-> TRUE, shapes |-> <<>>]
            ELSE IF Strip(t[2]) = <<>> THEN LegacyFilterFrom(shapes, i + 1, acc)
            ELSE LegacyFilterFrom(shapes, i + 1, Append(acc, ShapeGeometry(shapes[i])))

legacy_filter_text_shapes(shapes) == LegacyFilterFrom(shapes, 1, <<>>)

legacy_validate_grid(self, rows, columns) ==
    rows # <<>> /\ columns # <<>> /\ GridIsValid(rows, columns)

\* max(0.0, 1.0 - (avg / (tol * 2))) with avg 0.0 for no deviations: the
\* division is made in every case
LegacyAlignmentScore(devs, tol) ==
    IF tol * 2 = 0 THEN [raised |-> TRUE, num |-> 0, den |-> 1]
    ELSE IF devs.n = 0 THEN [raised |-> FALSE, num |-> 1, den |-> 1]
    ELSE IF devs.n * tol * 2 - devs.sum < 0 THEN [raised |-> FALSE, num |-> 0, den |-> 1]
    ELSE [raised |-> FALSE, num |-> devs.n * tol * 2 - devs.sum,
          den |-> devs.n * tol * 2]

\* round(confidence, 2), not clamped; the value is in hundredths
LegacyBlendScore(a, b, total, expected) ==
    IF a.raised \/ b.raised THEN [raised |-> TRUE, value |-> 0]
    ELSE LET num == AlignWeightTenths * a.num * b.den * expected
                    + AlignWeightTenths * b.num * a.den * expected
                    + DensityWeightTenths * total * a.den * b.den
             den == 10 * a.den * b.den * expected
         IN [raised |-> FALSE, value |-> Round2(num, den)]

legacy_calculate_confidence_score(self, rows, columns) ==
    LET row_score == LegacyAlignmentScore(Spreads(rows, "top"), self.y_tolerance)
        col_score == LegacyAlignmentScore(
                        Spreads(NearGroups(Flatten(rows), columns, "left",
                                           self.x_tolerance), "left"),
                        self.x_tolerance)
    IN LegacyBlendScore(row_score, col_score, Len(Flatten(rows)),
                        Len(rows) * Len(columns))

legacy_parse(self, shapes) ==
    LET text_shapes == legacy_filter_text_shapes(shapes)
        sorted_shapes == Sorted(text_shapes.shapes, "top_left")
        rows == cluster_rows(self, sorted_shapes)
        columns == detect_columns(self, rows)
        confidence == legacy_calculate_confidence_score(self, rows, columns)
    IN IF text_shapes.raised THEN Raised("AttributeError")
       ELSE IF Len(text_shapes.shapes) < self.min_rows * self.min_cols
            THEN Returned(NoneVal)
       ELSE IF Len(rows) < self.min_rows THEN Returned(NoneVal)
       ELSE IF Len(columns) < self.min_cols THEN Returned(NoneVal)
       ELSE IF ~legacy_validate_grid(self, rows, columns) THEN Returned(NoneVal)
       ELSE IF confidence.raised THEN Raised("ZeroDivisionError")
       ELSE Returned(Some(PseudoTable(confidence.value,
                                      calculate_bbox(sorted_shapes),
                                      extract_grid_data(self, rows, columns))))

(***************************************************************************)
(* The inputs: a lattice of nrows x ncols text boxes whose first row may   *)
(* be a merged header (one box), with at most one defect, handed over in   *)
(* reading order or in the reverse order.                                  *)
(***************************************************************************)
RowLetters == <<"A", "B", "C", "D", "E", "F">>
ColLetters == <<"u", "v", "w", "x", "y", "z">>

\* lattice rows and columns are further apart than any tolerance
Pitch == MaxTol + 1

\* some texts carry leading or trailing whitespace
CellText(r, c) ==
    (IF r % 2 = 0 THEN <<" ">> ELSE <<>>)
    \o <<RowLetters[r], ColLetters[c]>>
    \o (IF c % 2 = 0 THEN <<" ", "\n">> ELSE <<>>)

BaseRecord(r, c) ==
    [text |-> Str(CellText(r, c)),
     top |-> Num((r - 1) * Pitch), left |-> Num((c - 1) * Pitch),
     width |-> Num(c), height |-> Num(r)]

WithoutKey(s, k) == [x \in (DOMAIN s) \ {k} |-> s[x]]

\* defects that leave every record a well-formed shape with text
StructuralKinds == {"drop", "jitter_top", "jitter_left", "dup"}
\* defects that make one record blank
BlankKinds == {"blank"}
\* defects that make one record malformed
MalformedKinds == {"bad_geometry", "no_text", "null_text"}

\* the records a cell contributes
CellRecords(r, c, kind) ==
    LET b == BaseRecord(r, c)
    IN CASE kind = "exact" -> <<b>>
         [] kind = "drop" -> <<>>
         [] kind = "jitter_top" -> <<[b EXCEPT !["top"] = Num(b["top"][2] + 1)]>>
         [] kind = "jitter_left" -> <<[b EXCEPT !["left"] = Num(b["left"][2] + 1)]>>
         [] kind = "dup" ->
               <<b, [b EXCEPT !["text"] = Str(<<RowLetters[r], ColLetters[c], "2">>)]>>
         [] kind = "blank" ->
               <<[b EXCEPT !["text"] =
                     IF (r + c) % 2 = 0 THEN Str(<<>>) ELSE Str(<<" ", "\t">>)]>>
         [] kind = "bad_geometry" ->
               <<IF (r + c) % 2 = 0 THEN WithoutKey(b, "width")
                 ELSE [b EXCEPT !["left"] = Str(<<"x">>)]>>
         [] kind = "no_text" -> <<WithoutKey(b, "text")>>
         [] kind = "null_text" -> <<[b EXCEPT !["text"] = NoneVal]>>

\* the cells of a lattice whose first row holds header boxes
Cells(nrows, ncols, header) ==
    {<<r, c>> \in (1..nrows) \X (1..ncols) : r > 1 \/ c <= header}

NoDefect == <<>>

KindOf(defect, cell) ==
    IF defect # NoDefect /\ defect[1] = cell THEN defect[2] ELSE "exact"

BuildShapes(l) ==
    Flatten([i \in 1..(l.nrows * l.ncols) |->
                LET r == ((i - 1) \div l.ncols) + 1
                    c == ((i - 1) % l.ncols) + 1
                IN IF <<r, c>> \in Cells(l.nrows, l.ncols, l.header)
                   THEN CellRecords(r, c, KindOf(l.defect, <<r, c>>))
                   ELSE <<>>])

Reverse(q) == [i \in 1..Len(q) |-> q[Len(q) + 1 - i]]

Layouts(kinds) ==
    UNION {{[nrows |-> x[1], ncols |-> x[2], header |-> x[3], defect |-> d] :
               d \in {NoDefect} \cup (Cells(x[1], x[2], x[3]) \X kinds)} :
           x \in {y \in (1..MaxRows) \X (1..MaxCols) \X (1..MaxCols) :
                     y[3] = y[2] \/ (y[3] = 1 /\ y[1] > 1)}}

InputLists(kinds) ==
    UNION {{BuildShapes(l), Reverse(BuildShapes(l))} : l \in Layouts(kinds)}

\* text boxes scattered over the slide: box i in a row of its own and in
\* the column j of its own
ScatterRecord(i, j) ==
    [text |-> Str(<<"S", ColLetters[((i - 1) % Len(ColLetters)) + 1]>>),
     top |-> Num((i - 1) * Pitch), left |-> Num((j - 1) * Pitch),
     width |-> Num(1), height |-> Num(1)]

\* 2 .. MaxRows * MaxCols boxes along the diagonal or the anti-diagonal
ScatteredLists ==
    UNION {{[i \in 1..n |-> ScatterRecord(i, i)],
            [i \in 1..n |-> ScatterRecord(i, n + 1 - i)]} :
           n \in 2..(MaxRows * MaxCols)}

\* rows of a staggered grid are further apart than the lattice rows, so
\* that the offset of the second column can exceed a tolerance
StaggerPitch == MaxTol + 2

\* a grid of nrows rows and two columns whose second column lies d lower
StaggeredList(nrows, d) ==
    [i \in 1..(2 * nrows) |->
        LET r == ((i - 1) \div 2) + 1
            c == ((i - 1) % 2) + 1
        IN [text |-> Str(CellText(r, c)),
            top |-> Num((r - 1) * StaggerPitch + (IF c = 2 THEN d ELSE 0)),
            left |-> Num((c - 1) * Pitch),
            width |-> Num(1), height |-> Num(1)]]

StaggeredLists ==
    {StaggeredList(nrows, d) :
        nrows \in DefaultMinRows..MaxRows, d \in 1..(StaggerPitch - 1)}

\* n boxes in a single column (along = "top") or in a single row
StripList(n, along) ==
    [i \in 1..n |->
        [text |-> Str(<<"T", ColLetters[((i - 1) % Len(ColLetters)) + 1]>>),
         top |-> Num(IF along = "top" THEN (i - 1) * Pitch ELSE 0),
         left |-> Num(IF along = "left" THEN (i - 1) * Pitch ELSE 0),
         width |-> Num(1), height |-> Num(1)]]

\* strips of enough boxes to pass the count of min_rows * min_cols
StripLists ==
    {StripList(n, along) :
        n \in (DefaultMinRows * DefaultMinCols)..(MaxRows * MaxCols),
        along \in {"top", "left"}}

\* a full first row of ncols boxes above rows of k boxes each, all k of
\* them stacked at the first column
CrowdedList(nrows, ncols, k) ==
    [i \in 1..(ncols + (nrows - 1) * k) |->
        IF i <= ncols THEN BaseRecord(1, i)
        ELSE LET r == ((i - ncols - 1) \div k) + 2
                 n == ((i - ncols - 1) % k) + 1
             IN [BaseRecord(r, 1) EXCEPT
                    !["text"] = Str(<<RowLetters[r], ColLetters[n]>>)]]

CrowdedLists ==
    {CrowdedList(nrows, ncols, k) :
        nrows \in DefaultMinRows..MaxRows, ncols \in DefaultMinCols..MaxCols,
        k \in 2..MaxCols}

\* a full lattice with a second box stacked on its first cell and its last
\* cell out of line by one, down (jitter_top) or to the right (jitter_left)
JitteredStack(nrows, ncols, kind) ==
    Flatten([i \in 1..(nrows * ncols) |->
                LET r == ((i - 1) \div ncols) + 1
                    c == ((i - 1) % ncols) + 1
                IN CellRecords(r, c, IF <<r, c>> = <<1, 1>> THEN "dup"
                                     ELSE IF <<r, c>> = <<nrows, ncols>> THEN kind
                                     ELSE "exact")])

JitteredStacks ==
    {JitteredStack(nrows, ncols, kind) :
        nrows \in DefaultMinRows..MaxRows, ncols \in DefaultMinCols..MaxCols,
        kind \in {"jitter_top", "jitter_left"}}

\* text boxes at the given places <<top, column>>, the columns a Pitch apart
BoxesAt(places) ==
    [i \in 1..Len(places) |->
        [text |-> Str(<<RowLetters[places[i][1] + 1], ColLetters[places[i][2] + 1]>>),
         top |-> Num(places[i][1]), left |-> Num(places[i][2] * Pitch),
         width |-> Num(1), height |-> Num(1)]]

\* columns whose boxes stand at uneven heights: two columns of 4 and 3
\* boxes, and three columns of 2, 2 and 3 boxes
UnevenLists ==
    {BoxesAt(<<(<<0, 0>>), <<1, 0>>, <<2, 0>>, <<3, 0>>, <<1, 1>>, <<3, 1>>, <<4, 1>>>>),
     BoxesAt(<<(<<1, 0>>), <<2, 0>>, <<1, 1>>, <<4, 1>>, <<2, 2>>, <<3, 2>>, <<5, 2>>>>)}

\* PseudoTableParser(x_tolerance, y_tolerance), the minima left at their
\* defaults, of either module
Parsers ==
    [cls : {"ppt_shapes", "legacy"},
     x_tolerance : 0..MaxTol, y_tolerance : 0..MaxTol,
     min_rows : {DefaultMinRows}, min_cols : {DefaultMinCols}]

(***************************************************************************)
(* The state: the parser instance, and per call of parse its argument, the *)
(* place it has reached and its local variables.                           *)
(***************************************************************************)
VARIABLES self, shapes, pc, validated_shapes, sorted_shapes, rows, columns,
          confidence, grid_data, tried, outcome, history

vars == <<self, shapes, pc, validated_shapes, sorted_shapes, rows, columns,
          confidence, grid_data, tried, outcome, history>>

locals == <<validated_shapes, sorted_shapes, rows, columns, confidence, grid_data>>

Calls == DOMAIN pc

NoOutcome == [status |-> "running", value |-> <<>>]

InitCall(argument) ==
    /\ shapes = <<argument>>
    /\ pc = <<"parse">>
    /\ validated_shapes = <<(<<>>)>>
    /\ sorted_shapes = <<(<<>>)>>
    /\ rows = <<(<<>>)>>
    /\ columns = <<(<<>>)>>
    /\ confidence = <<0>>
    /\ grid_data = <<(<<>>)>>
    /\ tried = <<(<<>>)>>
    /\ outcome = <<NoOutcome>>
    /\ history = <<{}>>

\* the legacy parser is given Shape dictionaries; ppt_shapes is given
\* dictionaries of any content
\* lists of well-formed shapes that are no lattice with one defect
OtherLists ==
    ScatteredLists \cup StaggeredLists \cup StripLists \cup CrowdedLists
    \cup JitteredStacks \cup UnevenLists

ShapeLists == InputLists(StructuralKinds \cup BlankKinds) \cup OtherLists
DictLists ==
    InputLists(StructuralKinds \cup BlankKinds \cup MalformedKinds) \cup OtherLists

Init ==
    /\ self \in Parsers
    /\ \E argument \in (IF self.cls = "legacy" THEN ShapeLists ELSE DictLists) :
          InitCall(argument)

\* the arguments of the calls that share a parser instance: a full grid, a
\* grid under a merged header, a list with a null text, a single shape
CallLayouts ==
    {[nrows |-> MaxRows, ncols |-> MaxCols, header |-> MaxCols, defect |-> NoDefect],
     [nrows |-> MaxRows, ncols |-> MaxCols, header |-> 1, defect |-> NoDefect],
     [nrows |-> MaxRows, ncols |-> MaxCols - 1, header |-> MaxCols - 1,
      defect |-> <<(<<1, 1>>), "null_text">>],
     [nrows |-> 1, ncols |-> 1, header |-> 1, defect |-> NoDefect]}

CallLists == {BuildShapes(l) : l \in CallLayouts}

\* the instances that are shared: one tolerance for both axes, the least or
\* the greatest
CallParsers ==
    {p \in Parsers : p.x_tolerance = p.y_tolerance /\ p.x_tolerance \in {0, MaxTol}}

\* MaxCalls calls of parse on one instance, each with a list of its own
InitCalls ==
    /\ self \in CallParsers
    /\ shapes \in [1..MaxCalls ->
                      IF self.cls = "legacy" THEN CallLists \cap ShapeLists
                      ELSE CallLists]
    /\ pc = [c \in 1..MaxCalls |-> "parse"]
    /\ validated_shapes = [c \in 1..MaxCalls |-> <<>>]
    /\ sorted_shapes = [c \in 1..MaxCalls |-> <<>>]
    /\ rows = [c \in 1..MaxCalls |-> <<>>]
    /\ columns = [c \in 1..MaxCalls |-> <<>>]
    /\ confidence = [c \in 1..MaxCalls |-> 0]
    /\ grid_data = [c \in 1..MaxCalls |-> <<>>]
    /\ tried = [c \in 1..MaxCalls |-> <<>>]
    /\ outcome = [c \in 1..MaxCalls |-> NoOutcome]
    /\ history = [c \in 1..MaxCalls |-> {}]

(***************************************************************************)
(* The steps of a call c of parse.                                         *)
(***************************************************************************)
Goto(c, label) == pc' = [pc EXCEPT ![c] = label]

Finish(c, result) ==
    /\ Goto(c, IF result.status = "raised" THEN "raised" ELSE "done")
    /\ outcome' = [outcome EXCEPT ![c] = result]

\* a strategy that returns leaves its local variables behind
DropStrategyLocals(c) ==
    /\ sorted_shapes' = [sorted_shapes EXCEPT ![c] = <<>>]
    /\ rows' = [rows EXCEPT ![c] = <<>>]
    /\ columns' = [columns EXCEPT ![c] = <<>>]
    /\ confidence' = [confidence EXCEPT ![c] = 0]
    /\ grid_data' = [grid_data EXCEPT ![c] = <<>>]

\* faulty variant: validated_shapes is kept on the instance and not reset,
\* so the list of a call starts with what the calls before it left
FilterOnInstance(c) ==
    /\ self.cls = "ppt_shapes"
    /\ pc[c] = "parse"
    /\ LET v == validate_shapes(shapes[c])
           left_over == Flatten([d \in 1..Len(pc) |->
                                   IF d # c /\ pc[d] \in {"done", "raised"}
                                   THEN validated_shapes[d] ELSE <<>>])
       IN IF v.raised
          THEN /\ Finish(c, Raised("AttributeError"))
               /\ UNCHANGED validated_shapes
          ELSE /\ validated_shapes' = [validated_shapes EXCEPT ![c] = left_over \o v.shapes]
               /\ Goto(c, "check_count")
               /\ UNCHANGED outcome
    /\ UNCHANGED <<self, shapes, sorted_shapes, rows, columns, confidence,
                   grid_data, tried>>

\* faulty variant: the records the loop skips are removed from the caller's
\* list
FilterInPlace(c) ==
    /\ self.cls = "ppt_shapes"
    /\ pc[c] = "parse"
    /\ LET v == validate_shapes(shapes[c])
           Kept(s) == ValidateRecord(s) = "append"
       IN IF v.raised
          THEN /\ Finish(c, Raised("AttributeError"))
               /\ UNCHANGED <<validated_shapes, shapes>>
          ELSE /\ validated_shapes' = [validated_shapes EXCEPT ![c] = v.shapes]
               /\ shapes' = [shapes EXCEPT ![c] = SelectSeq(@, Kept)]
               /\ Goto(c, "check_count")
               /\ UNCHANGED outcome
    /\ UNCHANGED <<self, sorted_shapes, rows, columns, confidence, grid_data, tried>>

\* lines 77-84: the loop that builds validated_shapes
Filter(c) ==
    /\ self.cls = "ppt_shapes"
    /\ pc[c] = "parse"
    /\ LET v == validate_shapes(shapes[c])
       IN IF v.raised
          THEN /\ Finish(c, Raised("AttributeError"))
               /\ UNCHANGED validated_shapes
          ELSE /\ validated_shapes' = [validated_shapes EXCEPT ![c] = v.shapes]
               /\ Goto(c, "check_count")
               /\ UNCHANGED outcome
    /\ UNCHANGED <<self, shapes, sorted_shapes, rows, columns, confidence,
                   grid_data, tried>>

\* lines 86-87
CheckCount(c) ==
    /\ pc[c] = "check_count"
    /\ IF Len(validated_shapes[c]) < self.min_rows * self.min_cols
       THEN Finish(c, Returned(<<>>))
       ELSE Goto(c, "row_cluster") /\ UNCHANGED outcome
    /\ UNCHANGED <<self, shapes, locals, tried>>

\* the row-based strategy returned []: parse goes on to the column-based one
RowRejected(c) ==
    /\ Goto(c, "col_cluster")
    /\ DropStrategyLocals(c)

\* faulty variant: the clustered rows are kept on the instance, where every
\* call in flight reads them
RowClusterOnInstance(c) ==
    /\ pc[c] = "row_cluster"
    /\ tried' = [tried EXCEPT ![c] = Append(@, "row")]
    /\ LET sorted == Sorted(validated_shapes[c], "top_left")
           clustered == cluster_rows(self, sorted)
       IN IF Len(clustered) < self.min_rows
          THEN RowRejected(c)
          ELSE /\ sorted_shapes' = [sorted_shapes EXCEPT ![c] = sorted]
               /\ rows' = [d \in DOMAIN rows |-> clustered]
               /\ Goto(c, "row_detect")
               /\ UNCHANGED <<columns, confidence, grid_data>>
    /\ UNCHANGED <<self, shapes, validated_shapes, outcome>>

\* lines 113-119
RowCluster(c) ==
    /\ pc[c] = "row_cluster"
    /\ tried' = [tried EXCEPT ![c] = Append(@, "row")]
    /\ LET sorted == Sorted(validated_shapes[c], "top_left")
           clustered == cluster_rows(self, sorted)
       IN IF Len(clustered) < self.min_rows
          THEN RowRejected(c)
          ELSE /\ sorted_shapes' = [sorted_shapes EXCEPT ![c] = sorted]
               /\ rows' = [rows EXCEPT ![c] = clustered]
               /\ Goto(c, "row_detect")
               /\ UNCHANGED <<columns, confidence, grid_data>>
    /\ UNCHANGED <<self, shapes, validated_shapes, outcome>>

\* lines 121-124
RowDetect(c) ==
    /\ pc[c] = "row_detect"
    /\ LET detected == detect_columns(self, rows[c])
       IN IF Len(detected) < self.min_cols
          THEN RowRejected(c)
          ELSE /\ columns' = [columns EXCEPT ![c] = detected]
               /\ Goto(c, "row_validate")
               /\ UNCHANGED <<sorted_shapes, rows, confidence, grid_data>>
    /\ UNCHANGED <<self, shapes, validated_shapes, tried, outcome>>

\* lines 126-128
RowValidate(c) ==
    /\ pc[c] = "row_validate"
    /\ IF ~validate_grid(self, rows[c], columns[c])
       THEN RowRejected(c)
       ELSE /\ Goto(c, "row_score")
            /\ UNCHANGED <<sorted_shapes, rows, columns, confidence, grid_data>>
    /\ UNCHANGED <<self, shapes, validated_shapes, tried, outcome>>

\* line 131
RowScore(c) ==
    /\ pc[c] = "row_score"
    /\ LET score == calculate_confidence_score(self, rows[c], columns[c])
       IN IF score.raised
          THEN /\ Finish(c, Raised("ZeroDivisionError"))
               /\ UNCHANGED confidence
          ELSE /\ confidence' = [confidence EXCEPT ![c] = score.value]
               /\ Goto(c, "row_extract")
               /\ UNCHANGED outcome
    /\ UNCHANGED <<self, shapes, validated_shapes, sorted_shapes, rows, columns,
                   grid_data, tried>>

\* faulty variant: the row-based table is dropped and parse goes on to the
\* column-based strategy
RowExtractThenColumn(c) ==
    /\ pc[c] = "row_extract"
    /\ Goto(c, "col_cluster")
    /\ DropStrategyLocals(c)
    /\ UNCHANGED <<self, shapes, validated_shapes, tried, outcome>>

\* lines 132-140 and 91-93
RowExtract(c) ==
    /\ pc[c] = "row_extract"
    /\ LET data == extract_grid_data(self, rows[c], columns[c])
           bbox == calculate_bbox(sorted_shapes[c])
       IN /\ grid_data' = [grid_data EXCEPT ![c] = data]
          /\ Finish(c, Returned(<<PseudoTable(confidence[c], bbox, data)>>))
    /\ UNCHANGED <<self, shapes, validated_shapes, sorted_shapes, rows, columns,
                   confidence, tried>>

\* the column-based strategy returned []: lines 97 and 101
ColRejected(c) ==
    /\ Finish(c, Returned(<<>>))
    /\ DropStrategyLocals(c)

\* lines 154-160
ColCluster(c) ==
    /\ pc[c] = "col_cluster"
    /\ tried' = [tried EXCEPT ![c] = Append(@, "column")]
    /\ LET sorted == Sorted(validated_shapes[c], "left_top")
           clustered == cluster_columns(self, sorted)
       IN IF Len(clustered) < self.min_cols
          THEN ColRejected(c)
          ELSE /\ sorted_shapes' = [sorted_shapes EXCEPT ![c] = sorted]
               /\ columns' = [columns EXCEPT ![c] = clustered]
               /\ Goto(c, "col_detect")
               /\ UNCHANGED <<rows, confidence, grid_data, outcome>>
    /\ UNCHANGED <<self, shapes, validated_shapes>>

\* faulty variant: the fallback accepts any number of detected rows
ColDetectWithoutMinimum(c) ==
    /\ pc[c] = "col_detect"
    /\ rows' = [rows EXCEPT ![c] = detect_rows_in_columns(self, columns[c])]
    /\ Goto(c, "col_validate")
    /\ UNCHANGED <<sorted_shapes, columns, confidence, grid_data, outcome>>
    /\ UNCHANGED <<self, shapes, validated_shapes, tried>>

\* lines 162-165
ColDetect(c) ==
    /\ pc[c] = "col_detect"
    /\ LET detected == detect_rows_in_columns(self, columns[c])
       IN IF Len(detected) < self.min_rows
          THEN ColRejected(c)
          ELSE /\ rows' = [rows EXCEPT ![c] = detected]
               /\ Goto(c, "col_validate")
               /\ UNCHANGED <<sorted_shapes, columns, confidence, grid_data, outcome>>
    /\ UNCHANGED <<self, shapes, validated_shapes, tried>>

\* lines 167-169
ColValidate(c) ==
    /\ pc[c] = "col_validate"
    /\ IF ~validate_column_grid(self, columns[c], rows[c])
       THEN ColRejected(c)
       ELSE /\ Goto(c, "col_transpose")
            /\ UNCHANGED <<sorted_shapes, rows, columns, confidence, grid_data,
                           outcome>>
    /\ UNCHANGED <<self, shapes, validated_shapes, tried>>

\* line 172
ColTranspose(c) ==
    /\ pc[c] = "col_transpose"
    /\ grid_data' = [grid_data EXCEPT ![c] =
                        transpose_columns_to_rows(self, columns[c], rows[c])]
    /\ Goto(c, "col_score")
    /\ UNCHANGED <<self, shapes, validated_shapes, sorted_shapes, rows, columns,
                   confidence, tried, outcome>>

\* lines 175-183 and 97-99
ColScore(c) ==
    /\ pc[c] = "col_score"
    /\ LET score == calculate_column_confidence_score(self, columns[c], rows[c])
           bbox == calculate_bbox(sorted_shapes[c])
       IN IF score.raised
          THEN /\ Finish(c, Raised("ZeroDivisionError"))
               /\ UNCHANGED confidence
          ELSE /\ confidence' = [confidence EXCEPT ![c] = score.value]
               /\ Finish(c, Returned(<<PseudoTable(score.value, bbox, grid_data[c])>>))
    /\ UNCHANGED <<self, shapes, validated_shapes, sorted_shapes, rows, columns,
                   grid_data, tried>>

\* the legacy parser's parse, lines 117-156
LegacyParse(c) ==
    /\ self.cls = "legacy"
    /\ pc[c] = "parse"
    /\ Finish(c, legacy_parse(self, shapes[c]))
    /\ UNCHANGED <<self, shapes, locals, tried>>

\* history[c]: the calls that had returned when call c was entered
Record(c) ==
    history' = IF pc[c] = "parse"
               THEN [history EXCEPT ![c] = {d \in Calls : pc[d] \in {"done", "raised"}}]
               ELSE history

Next ==
    \/ \E c \in Calls : LegacyParse(c) /\ Record(c)
    \/ \E c \in Calls : Filter(c) /\ Record(c)
    \/ \E c \in Calls : CheckCount(c) /\ Record(c)
    \/ \E c \in Calls : RowCluster(c) /\ Record(c)
    \/ \E c \in Calls : RowDetect(c) /\ Record(c)
    \/ \E c \in Calls : RowValidate(c) /\ Record(c)
    \/ \E c \in Calls : RowScore(c) /\ Record(c)
    \/ \E c \in Calls : RowExtract(c) /\ Record(c)
    \/ \E c \in Calls : ColCluster(c) /\ Record(c)
    \/ \E c \in Calls : ColDetect(c) /\ Record(c)
    \/ \E c \in Calls : ColValidate(c) /\ Record(c)
    \/ \E c \in Calls : ColTranspose(c) /\ Record(c)
    \/ \E c \in Calls : ColScore(c) /\ Record(c)

Spec == Init /\ [][Next]_vars

\* several calls on one instance, their steps interleaved in any order
SpecCalls == InitCalls /\ [][Next]_vars

\* the scoring functions called on the clusters and positions of any list
\* that holds a valid shape, whether or not they pass validation
InitScore ==
    /\ self \in {p \in Parsers : p.cls = "ppt_shapes"}
    /\ \E argument \in ShapeLists :
          /\ validate_shapes(argument).shapes # <<>>
          /\ shapes = <<argument>>
          /\ validated_shapes = <<validate_shapes(argument).shapes>>
    /\ pc = <<"score_arguments">>
    /\ sorted_shapes = <<(<<>>)>>
    /\ rows = <<(<<>>)>>
    /\ columns = <<(<<>>)>>
    /\ confidence = <<0>>
    /\ grid_data = <<(<<>>)>>
    /\ tried = <<(<<>>)>>
    /\ outcome = <<NoOutcome>>
    /\ history = <<{}>>

\* the arguments of _calculate_confidence_score(rows, columns): the row
\* clusters and the detected columns (lines 114, 117, 122)
RowArguments(c) ==
    /\ pc[c] = "score_arguments"
    /\ LET sorted == Sorted(validated_shapes[c], "top_left")
           clustered == cluster_rows(self, sorted)
       IN /\ sorted_shapes' = [sorted_shapes EXCEPT ![c] = sorted]
          /\ rows' = [rows EXCEPT ![c] = clustered]
          /\ columns' = [columns EXCEPT ![c] = detect_columns(self, clustered)]
    /\ tried' = [tried EXCEPT ![c] = <<"row">>]
    /\ Goto(c, "row_score")
    /\ UNCHANGED <<self, shapes, validated_shapes, confidence, grid_data, outcome>>

\* the arguments of _calculate_column_confidence_score(columns, rows): the
\* column clusters and the detected rows (lines 155, 158, 163, 172)
ColArguments(c) ==
    /\ pc[c] = "score_arguments"
    /\ LET sorted == Sorted(validated_shapes[c], "left_top")
           clustered == cluster_columns(self, sorted)
           detected == detect_rows_in_columns(self, clustered)
       IN /\ sorted_shapes' = [sorted_shapes EXCEPT ![c] = sorted]
          /\ columns' = [columns EXCEPT ![c] = clustered]
          /\ rows' = [rows EXCEPT ![c] = detected]
          /\ grid_data' = [grid_data EXCEPT ![c] =
                              transpose_columns_to_rows(self, clustered, detected)]
    /\ tried' = [tried EXCEPT ![c] = <<"row", "column">>]
    /\ Goto(c, "col_score")
    /\ UNCHANGED <<self, shapes, validated_shapes, confidence, outcome>>

NextScore ==
    \/ \E c \in Calls : RowArguments(c) /\ Record(c)
    \/ \E c \in Calls : ColArguments(c) /\ Record(c)
    \/ \E c \in Calls : RowScore(c) /\ Record(c)
    \/ \E c \in Calls : ColScore(c) /\ Record(c)

SpecScore == InitScore /\ [][NextScore]_vars

(***************************************************************************)
(* The machine computes what parse computes.                               *)
(***************************************************************************)
Finished(c) == pc[c] \in {"done", "raised"}

OutcomeIsParse ==
    \A c \in Calls :
        Finished(c) /\ self.cls = "ppt_shapes" => outcome[c] = parse(self, shapes[c])

(***************************************************************************)
(* What the claims speak of.                                               *)
(***************************************************************************)
\* the tables a finished call handed back: the list of ppt_shapes, or the
\* legacy parser's table when it is not None
ResultTables(c) ==
    IF outcome[c].status # "returned" THEN <<>>
    ELSE IF self.cls = "ppt_shapes" THEN outcome[c].value
    ELSE IF outcome[c].value = NoneVal THEN <<>>
    ELSE <<outcome[c].value[2]>>

TableReturned(c) == pc[c] = "done" /\ ResultTables(c) # <<>>

TheTable(c) == ResultTables(c)[1]

\* the empty result of either parser
EmptyResult == IF self.cls = "ppt_shapes" THEN Returned(<<>>) ELSE Returned(NoneVal)

IsBlankText(t) == \A i \in 1..Len(t) : t[i] \in Whitespace

\* a record with every field of the right type
WellFormed(s) ==
    /\ DOMAIN s = GeometryKeys \cup {"text"}
    /\ s["text"][1] = "str"
    /\ \A k \in GeometryKeys : s[k][1] = "num"

\* a well-formed record whose text is not blank
ValidShape(s) == WellFormed(s) /\ ~IsBlankText(s["text"][2])

TopsOf(S) == {S[i]["top"][2] : i \in 1..Len(S)}
LeftsOf(S) == {S[i]["left"][2] : i \in 1..Len(S)}

\* distinct values differ by more than tol
Separated(V, tol) == \A a \in V, b \in V : a # b => Abs(a - b) > tol

\* the 1-based rank of v in V
Rank(v, V) == Cardinality({x \in V : x <= v})

At(S, t, l) == {i \in 1..Len(S) : S[i]["top"][2] = t /\ S[i]["left"][2] = l}

\* every lattice point but the points of Holes holds exactly one shape
GridWithHoles(S, Holes) ==
    /\ \A i \in 1..Len(S) : ValidShape(S[i])
    /\ \A t \in TopsOf(S), l \in LeftsOf(S) :
          Cardinality(At(S, t, l)) = IF <<t, l>> \in Holes THEN 0 ELSE 1
    /\ Separated(TopsOf(S), self.y_tolerance)
    /\ Separated(LeftsOf(S), self.x_tolerance)
    /\ Cardinality(TopsOf(S)) >= self.min_rows
    /\ Cardinality(LeftsOf(S)) >= self.min_cols
    /\ self.x_tolerance > 0 /\ self.y_tolerance > 0

\* data holds the trimmed text of every shape at its lattice place, None at
\* the holes, and has the shape of the lattice
DataIsLattice(S, data) ==
    /\ Len(data) = Cardinality(TopsOf(S))
    /\ \A r \in 1..Len(data) : Len(data[r]) = Cardinality(LeftsOf(S))
    /\ \A t \in TopsOf(S), l \in LeftsOf(S) :
          data[Rank(t, TopsOf(S))][Rank(l, LeftsOf(S))] =
              IF At(S, t, l) = {} THEN NoneVal
              ELSE Str(Strip(S[CHOOSE i \in At(S, t, l) : TRUE]["text"][2]))

(***************************************************************************)
(* C1: whenever ppt_shapes parse returns a table, by either strategy,      *)
(* every row of data is as long as the list of detected columns, data has  *)
(* at least min_rows rows and its first row at least min_cols cells.       *)
(***************************************************************************)
C1_UniformGrid ==
    \A c \in Calls :
        TableReturned(c) /\ self.cls = "ppt_shapes" =>
            LET data == TheTable(c).data
            IN /\ \A r \in 1..Len(data) : Len(data[r]) = Len(columns[c])
               /\ Len(data) >= self.min_rows
               /\ Len(data[1]) >= self.min_cols

\* a table of the column-based strategy with an empty cell
C1_Witness ==
    \E c \in Calls :
        /\ TableReturned(c) /\ self.cls = "ppt_shapes"
        /\ tried[c] = <<"row", "column">>
        /\ \E r \in 1..Len(TheTable(c).data) : NoneVal \in Range(TheTable(c).data[r])

(***************************************************************************)
(* C2: a full zero-jitter grid of R >= min_rows rows and C >= min_cols     *)
(* columns, rows and columns further apart than the (positive)             *)
(* tolerances, yields exactly one table; data[r][c] is the trimmed text of *)
(* the shape in the r-th row from the top and the c-th column from the     *)
(* left, and confidence_score >= 0.90.                                     *)
(***************************************************************************)
C2_PerfectGrid ==
    \A c \in Calls :
        Finished(c) /\ GridWithHoles(shapes[c], {}) =>
            /\ outcome[c].status = "returned"
            /\ Len(ResultTables(c)) = 1
            /\ DataIsLattice(shapes[c], TheTable(c).data)
            /\ TheTable(c).confidence_score >= 90

\* a perfect grid handed over in another order than the reading order,
\* parsed by ppt_shapes
C2_Witness ==
    \E c \in Calls :
        /\ Finished(c) /\ GridWithHoles(shapes[c], {})
        /\ self.cls = "ppt_shapes"
        /\ shapes[c][1]["top"][2] > shapes[c][Len(shapes[c])]["top"][2]

\* two outcomes of a call are the same: both return the same value or both
\* raise the same exception
SameOutcome(a, b) ==
    /\ a.status = b.status
    /\ a.value = b.value

(***************************************************************************)
(* C3: a zero-jitter grid of R >= min_rows rows and C >= min_cols columns  *)
(* from which exactly one shape is omitted yields exactly one table, with  *)
(* None at the omitted place, the text of its shape in every other cell,   *)
(* and every row of length C.                                              *)
(***************************************************************************)
C3_MissingCell ==
    \A c \in Calls :
        /\ Finished(c)
        /\ \E hole \in TopsOf(shapes[c]) \X LeftsOf(shapes[c]) :
              GridWithHoles(shapes[c], {hole})
        => /\ outcome[c].status = "returned"
           /\ Len(ResultTables(c)) = 1
           /\ DataIsLattice(shapes[c], TheTable(c).data)

\* the number of records of S the filter keeps
ValidCount(S) == Cardinality({i \in 1..Len(S) : ValidShape(S[i])})

(***************************************************************************)
(* C4: an input with fewer than min_rows * min_cols valid shapes with      *)
(* non-blank text yields the empty result (the empty list; None in the     *)
(* legacy parser).                                                         *)
(***************************************************************************)
C4_TooFewShapes ==
    \A c \in Calls :
        Finished(c) /\ ValidCount(shapes[c]) < self.min_rows * self.min_cols
            => SameOutcome(outcome[c], EmptyResult)

\* parse of the module the parser belongs to
ParseOf(parser, S) ==
    IF parser.cls = "ppt_shapes" THEN parse(parser, S) ELSE legacy_parse(parser, S)

\* S with the records i and i + 1 exchanged
Swap(S, i) ==
    [k \in 1..Len(S) |-> IF k = i THEN S[i + 1] ELSE IF k = i + 1 THEN S[i] ELSE S[k]]

(***************************************************************************)
(* C5: parse returns the same result for every order of the input list.    *)
(* Stated for the exchange of two neighbours, which generates every        *)
(* permutation, and for the reversal.                                      *)
(***************************************************************************)
C5_OrderInvariant ==
    \A c \in Calls :
        Finished(c) =>
            /\ SameOutcome(ParseOf(self, Reverse(shapes[c])), outcome[c])
            /\ \A i \in 1..(Len(shapes[c]) - 1) :
                  SameOutcome(ParseOf(self, Swap(shapes[c], i)), outcome[c])

(***************************************************************************)
(* C6: every table ppt_shapes parse returns, by either strategy, has       *)
(* 0.0 <= confidence_score <= 1.0 (0..100 in hundredths).                  *)
(***************************************************************************)
C6_ScoreInRange ==
    \A c \in Calls :
        TableReturned(c) /\ self.cls = "ppt_shapes" =>
            /\ TheTable(c).confidence_score >= 0
            /\ TheTable(c).confidence_score <= 100

\* a table whose grid holds more shapes than cells: the blend exceeds 1
C6_Witness ==
    \E c \in Calls :
        /\ TableReturned(c) /\ self.cls = "ppt_shapes"
        /\ Len(validated_shapes[c]) >
              Len(TheTable(c).data) * Len(TheTable(c).data[1])

\* a strategy result that is truthy (a list of one table), and one that
\* is the empty list
YieldsTable(r) == r.status = "returned" /\ r.value # <<>>

YieldsNothing(r) == r.status = "returned" /\ r.value = <<>>

(***************************************************************************)
(* C7: parse returns at most one table.  When the row-based strategy       *)
(* yields a table, parse returns exactly that table and the column-based   *)
(* strategy is never consulted; the column-based result is returned only   *)
(* when the row-based strategy yielded nothing; when both yield nothing    *)
(* the result is the empty list.                                           *)
(***************************************************************************)
C7_RowFirst ==
    \A c \in Calls :
        self.cls = "ppt_shapes" =>
            LET row_result == try_row_based_detection(self, validated_shapes[c])
                col_result == try_column_based_detection(self, validated_shapes[c])
                row_table == YieldsTable(row_result)
                row_nothing == YieldsNothing(row_result)
            IN /\ Len(ResultTables(c)) <= 1
               /\ tried[c] \in {<<>>, <<"row">>, <<"row", "column">>}
               /\ "column" \in Range(tried[c]) => row_nothing
               /\ pc[c] = "done" /\ tried[c] = <<"row">> =>
                     row_table /\ outcome[c] = row_result
               /\ pc[c] = "done" /\ tried[c] = <<"row", "column">> =>
                     outcome[c] = col_result
               /\ pc[c] = "done" /\ row_nothing /\ YieldsNothing(col_result) =>
                     outcome[c] = Returned(<<>>)

\* the row-based table returned for an input on which the column-based
\* strategy would yield a table too
C7_Witness ==
    \E c \in Calls :
        /\ TableReturned(c) /\ self.cls = "ppt_shapes"
        /\ tried[c] = <<"row">>
        /\ YieldsTable(try_column_based_detection(self, validated_shapes[c]))

(***************************************************************************)
(* C8: parse is total: on a list of well-formed shape records, with        *)
(* non-negative tolerances and min_rows, min_cols >= 1, it never raises,   *)
(* and reports the absence of a table as the empty list (None in the       *)
(* legacy parser).                                                         *)
(***************************************************************************)
C8_Total ==
    \A c \in Calls :
        (\A i \in 1..Len(shapes[c]) : WellFormed(shapes[c][i])) =>
            /\ pc[c] # "raised"
            /\ pc[c] = "done" /\ ResultTables(c) = <<>> => outcome[c] = EmptyResult

(***************************************************************************)
(* C9: ppt_shapes parse skips a malformed record (a geometry field missing *)
(* or not numeric, the text absent or null): it does not raise on it and   *)
(* returns what it returns for the list without the malformed records.     *)
(***************************************************************************)
C9_MalformedSkipped ==
    \A c \in Calls :
        Finished(c) /\ self.cls = "ppt_shapes" =>
            SameOutcome(outcome[c], parse(self, SelectSeq(shapes[c], WellFormed)))

\* a shape whose text is empty or whitespace-only
IsBlankShape(s) ==
    "text" \in DOMAIN s /\ s["text"][1] = "str" /\ IsBlankText(s["text"][2])

NotBlankShape(s) == ~IsBlankShape(s)

(***************************************************************************)
(* C10: shapes whose text is empty or whitespace-only never influence      *)
(* detection: parse(S) is parse(S without its blank-text shapes).          *)
(***************************************************************************)
C10_BlankIgnored ==
    \A c \in Calls :
        Finished(c) =>
            SameOutcome(outcome[c], ParseOf(self, SelectSeq(shapes[c], NotBlankShape)))

\* a table returned for an input that holds a whitespace-only shape
C10_Witness ==
    \E c \in Calls :
        /\ TableReturned(c) /\ self.cls = "ppt_shapes"
        /\ \E i \in 1..Len(shapes[c]) :
              IsBlankShape(shapes[c][i]) /\ shapes[c][i]["text"][2] # <<>>

Entered(c) == pc[c] # "parse"

\* call c was entered after call d had returned
RanAfter(c, d) == Entered(c) /\ d \in history[c]

\* no other call was in flight while call c ran
RanAlone(c) ==
    \A d \in Calls \ {c} : Entered(d) => RanAfter(c, d) \/ RanAfter(d, c)

(***************************************************************************)
(* C11: determinism without hidden state: a parse call on an instance that *)
(* has parsed other inputs before returns what a fresh instance of the     *)
(* same configuration returns for its input, and two calls with equal      *)
(* input return equal results.                                             *)
(***************************************************************************)
C11_NoHiddenState ==
    \A c \in Calls :
        Finished(c) /\ RanAlone(c) =>
            /\ SameOutcome(outcome[c], ParseOf(self, shapes[c]))
            /\ \A d \in Calls :
                  Finished(d) /\ RanAlone(d) /\ shapes[d] = shapes[c] =>
                      SameOutcome(outcome[d], outcome[c])

\* a table returned by a call entered after another call, of another input,
\* had returned its table
C11_Witness ==
    \E c \in Calls, d \in Calls :
        /\ RanAfter(c, d)
        /\ TableReturned(c) /\ TableReturned(d)
        /\ shapes[c] # shapes[d]
        /\ self.cls = "ppt_shapes"

\* the places of a call inside the row-based and the column-based strategy
\* at which rows and columns hold clustering state
RowPlaces == {"row_detect", "row_validate", "row_score", "row_extract"}

ColPlaces == {"col_detect", "col_validate", "col_transpose", "col_score"}

\* the calls c and d were in flight at the same time
Overlapped(c, d) ==
    c # d /\ Entered(c) /\ Entered(d) /\ ~RanAfter(c, d) /\ ~RanAfter(d, c)

(***************************************************************************)
(* C12: parse calls that run concurrently on one instance, each with its   *)
(* own shape list and interleaved at any step, each return what they       *)
(* return when run alone, and at every step the clustering state of a call *)
(* (validated shapes, rows, columns) is computed from its own input only.  *)
(***************************************************************************)
C12_CallsIsolated ==
    \A c \in Calls :
        /\ Finished(c) => SameOutcome(outcome[c], ParseOf(self, shapes[c]))
        /\ pc[c] \in RowPlaces \cup ColPlaces \cup {"check_count", "row_cluster", "col_cluster"} =>
              validated_shapes[c] = validate_shapes(shapes[c]).shapes
        /\ pc[c] \in RowPlaces =>
              /\ rows[c] = cluster_rows(self, Sorted(validated_shapes[c], "top_left"))
              /\ pc[c] # "row_detect" => columns[c] = detect_columns(self, rows[c])
        /\ pc[c] \in ColPlaces =>
              /\ columns[c] = cluster_columns(self, Sorted(validated_shapes[c], "left_top"))
              /\ pc[c] # "col_detect" => rows[c] = detect_rows_in_columns(self, columns[c])

\* two calls of different inputs that were in flight at the same time and
\* both returned a table
C12_Witness ==
    \E c \in Calls, d \in Calls :
        /\ Overlapped(c, d)
        /\ TableReturned(c) /\ TableReturned(d)
        /\ shapes[c] # shapes[d]
        /\ self.cls = "ppt_shapes"

(***************************************************************************)
(* C13: parse has no side effects on its arguments or on the parser: no    *)
(* step of a call, whether or not a table is returned in the end, changes  *)
(* the caller's shape list (its length, order and records) or x_tolerance, *)
(* y_tolerance, min_rows, min_cols of the instance.                        *)
(***************************************************************************)
C13_NoSideEffects == [][shapes' = shapes /\ self' = self]_vars

\* a table returned for a list that is not in reading order and holds a
\* blank shape the filter skipped
C13_Witness ==
    \E c \in Calls :
        /\ TableReturned(c)
        /\ \E i \in 1..Len(shapes[c]) : IsBlankShape(shapes[c][i])
        /\ shapes[c][1]["top"][2] > shapes[c][Len(shapes[c])]["top"][2]

\* the places in S of the valid shapes with non-blank text
ValidPlaces(S) == {i \in 1..Len(S) : ValidShape(S[i])}

\* the number of cells of data that hold a text
Populated(data) ==
    Cardinality({x \in (1..Len(data)) \X (1..Len(data[1])) : data[x[1]][x[2]] # NoneVal})

(***************************************************************************)
(* C14: whenever a table is returned, bbox is [min(left), min(top),        *)
(* max(left + width), max(top + height)] over all valid non-blank shapes   *)
(* of the input, every such shape's rectangle lies inside bbox, and        *)
(* bbox[0] <= bbox[2], bbox[1] <= bbox[3].                                 *)
(***************************************************************************)
C14_BoundingBox ==
    \A c \in Calls :
        TableReturned(c) =>
            LET S == shapes[c]
                V == ValidPlaces(S)
                bbox == TheTable(c).bbox
                Right(i) == S[i]["left"][2] + S[i]["width"][2]
                Bottom(i) == S[i]["top"][2] + S[i]["height"][2]
            IN /\ \A i \in V : /\ bbox[1] <= S[i]["left"][2] /\ Right(i) <= bbox[3]
                               /\ bbox[2] <= S[i]["top"][2] /\ Bottom(i) <= bbox[4]
               /\ \E i \in V : bbox[1] = S[i]["left"][2]
               /\ \E i \in V : bbox[2] = S[i]["top"][2]
               /\ \E i \in V : bbox[3] = Right(i)
               /\ \E i \in V : bbox[4] = Bottom(i)
               /\ bbox[1] <= bbox[3] /\ bbox[2] <= bbox[4]

\* a table in which the text of one valid shape landed in no cell
C14_Witness ==
    \E c \in Calls :
        /\ TableReturned(c)
        /\ Cardinality(ValidPlaces(shapes[c])) > Populated(TheTable(c).data)

\* two or more valid shapes of which no two share a row or a column: all
\* tops differ by more than y_tolerance, all lefts by more than x_tolerance
Scattered(S) ==
    /\ Len(S) >= 2
    /\ \A i \in 1..Len(S) : ValidShape(S[i])
    /\ \A i \in 1..Len(S), j \in 1..Len(S) :
          i # j => /\ Abs(S[i]["top"][2] - S[j]["top"][2]) > self.y_tolerance
                   /\ Abs(S[i]["left"][2] - S[j]["left"][2]) > self.x_tolerance

(***************************************************************************)
(* C15: noise rejection: an input of two or more shapes of which no two    *)
(* share a row or a column yields the empty result, for any number of      *)
(* shapes, min_rows * min_cols and more included.                          *)
(***************************************************************************)
C15_NoiseRejected ==
    \A c \in Calls :
        Finished(c) /\ Scattered(shapes[c]) => SameOutcome(outcome[c], EmptyResult)

\* scattered shapes, enough of them to pass the count, that both strategies
\* of ppt_shapes turned down
C15_Witness ==
    \E c \in Calls :
        /\ Finished(c) /\ Scattered(shapes[c])
        /\ Len(shapes[c]) >= self.min_rows * self.min_cols
        /\ tried[c] = <<"row", "column">>

\* the tops of the shapes of S whose left is l
TopsAt(S, l) == {S[i]["top"][2] : i \in {k \in 1..Len(S) : S[k]["left"][2] = l}}

\* S is a grid of Len(S) / 2 >= min_rows rows of pitch p and two columns
\* further apart than x_tolerance, each shape of the second column d below
\* its neighbour in the first
IsStaggered(S, p, d) ==
    /\ \A i \in 1..Len(S) : ValidShape(S[i])
    /\ Cardinality(LeftsOf(S)) = 2
    /\ Separated(LeftsOf(S), self.x_tolerance)
    /\ 0 < d /\ d < p
    /\ LET first == TopsAt(S, MinOf(LeftsOf(S)))
           second == TopsAt(S, MaxOf(LeftsOf(S)))
           nrows == Len(S) \div 2
       IN /\ Len(S) = 2 * nrows
          /\ nrows >= self.min_rows
          /\ Cardinality(first) = nrows
          /\ first = {MinOf(first) + k * p : k \in 0..(nrows - 1)}
          /\ second = {t + d : t \in first}

(***************************************************************************)
(* C16: tolerance sensitivity: for a grid of R >= min_rows rows of pitch p *)
(* and two columns, each shape of the second column d below its neighbour  *)
(* (0 < d < p), parse returns the empty result when y_tolerance < d and    *)
(* y_tolerance < p - d, and a table of exactly R rows and 2 columns when   *)
(* d <= y_tolerance < p.                                                   *)
(***************************************************************************)
C16_ToleranceSensitivity ==
    \A c \in Calls :
        Finished(c) =>
            \A p \in 1..StaggerPitch, d \in 1..StaggerPitch :
                IsStaggered(shapes[c], p, d) =>
                    /\ self.y_tolerance < d /\ self.y_tolerance < p - d =>
                          SameOutcome(outcome[c], EmptyResult)
                    /\ d <= self.y_tolerance /\ self.y_tolerance < p =>
                          /\ Len(ResultTables(c)) = 1
                          /\ Len(TheTable(c).data) = Len(shapes[c]) \div 2
                          /\ \A r \in 1..Len(TheTable(c).data) :
                                Len(TheTable(c).data[r]) = 2

\* the number of clusters of the values V under a tolerance: the smallest
\* value opens a cluster that takes every value within the tolerance of it
RECURSIVE ClusterCount(_, _)
ClusterCount(V, tol) ==
    IF V = {} THEN 0
    ELSE 1 + ClusterCount({v \in V : v > MinOf(V) + tol}, tol)

\* the valid non-blank shapes of S
ValidOnes(S) == SelectSeq(S, ValidShape)

\* S holds fewer row clusters than min_rows or fewer column clusters than
\* min_cols
TooFewClusters(S) ==
    \/ ClusterCount(TopsOf(ValidOnes(S)), self.y_tolerance) < self.min_rows
    \/ ClusterCount(LeftsOf(ValidOnes(S)), self.x_tolerance) < self.min_cols

(***************************************************************************)
(* C17: minimum dimensions: when the valid non-blank shapes form fewer     *)
(* than min_rows row clusters or fewer than min_cols column clusters,      *)
(* parse returns no table, whatever the number of shapes and the column-   *)
(* based fallback included; with well-formed records it returns the empty  *)
(* result.                                                                 *)
(***************************************************************************)
C17_MinimumDimensions ==
    \A c \in Calls :
        Finished(c) /\ TooFewClusters(shapes[c]) =>
            /\ ResultTables(c) = <<>>
            /\ (\A i \in 1..Len(shapes[c]) : WellFormed(shapes[c][i])) =>
                  SameOutcome(outcome[c], EmptyResult)

\* min_rows * min_cols or more valid shapes in too few rows or columns that
\* the row-based strategy and the column-based fallback both turned down
C17_Witness ==
    \E c \in Calls :
        /\ Finished(c) /\ TooFewClusters(shapes[c])
        /\ Len(ValidOnes(shapes[c])) >= self.min_rows * self.min_cols
        /\ tried[c] = <<"row", "column">>
        /\ SameOutcome(outcome[c], EmptyResult)

\* the lattice places of the first row to the right of the first column
HeaderSpan(S) ==
    {<<MinOf(TopsOf(S)), l>> : l \in LeftsOf(S) \ {MinOf(LeftsOf(S))}}

\* a first row of one shape at the first column's left edge above two or
\* more full rows of two or more aligned shapes
MergedHeader(S) ==
    /\ S # <<>>
    /\ \A i \in 1..Len(S) : WellFormed(S[i])
    /\ Cardinality(TopsOf(S)) >= 3
    /\ Cardinality(LeftsOf(S)) >= 2
    /\ GridWithHoles(S, HeaderSpan(S))

(***************************************************************************)
(* C18: merged header handling: the legacy parser with the default minima  *)
(* detects a layout of a single header shape at the first column's left    *)
(* edge above two or more full rows of C >= 2 aligned shapes as a table    *)
(* (the result is not None) of one data row per visual row.                *)
(***************************************************************************)
C18_MergedHeader ==
    \A c \in Calls :
        Finished(c) /\ self.cls = "legacy" /\ MergedHeader(shapes[c]) =>
            /\ TableReturned(c)
            /\ Len(TheTable(c).data) = Cardinality(TopsOf(shapes[c]))

(***************************************************************************)
(* C19: every table the legacy parser returns has a confidence_score, in   *)
(* hundredths, between 0 and 100, also when a row cluster holds more       *)
(* shapes than there are detected columns.                                 *)
(***************************************************************************)
C19_LegacyScoreInRange ==
    \A c \in Calls :
        TableReturned(c) /\ self.cls = "legacy" =>
            /\ 0 <= TheTable(c).confidence_score
            /\ TheTable(c).confidence_score <= 100

\* the number of cells of data
CellCount(data) == SumSeq([r \in 1..Len(data) |-> Len(data[r])])

(***************************************************************************)
(* C20: in every table returned by the legacy parser, and by the row-based *)
(* strategy of ppt_shapes, at least 70% of the cells of data are populated *)
(* (not None).                                                             *)
(***************************************************************************)
C20_CellsPopulated ==
    \A c \in Calls :
        TableReturned(c) /\ (self.cls = "legacy" \/ tried[c] = <<"row">>) =>
            10 * Populated(TheTable(c).data)
                >= ThresholdTenths * CellCount(TheTable(c).data)

\* the row clusters and the column clusters of the valid shapes of a call
RowClustersOf(c) ==
    cluster_rows(self, Sorted(validate_shapes(shapes[c]).shapes, "top_left"))

ColClustersOf(c) ==
    cluster_columns(self, Sorted(validate_shapes(shapes[c]).shapes, "left_top"))

\* some row cluster holds two shapes of different tops, or some column
\* cluster two shapes of different lefts
Jittered(c) ==
    \/ Spreads(RowClustersOf(c), "top").sum > 0
    \/ Spreads(ColClustersOf(c), "left").sum > 0

(***************************************************************************)
(* C21: jitter lowers the score: whenever ppt_shapes parse returns a table *)
(* for an input in which a row cluster holds two shapes of different tops  *)
(* or a column two shapes of different lefts, confidence_score, in         *)
(* hundredths, is strictly below 100.                                      *)
(***************************************************************************)
C21_JitterLowersScore ==
    \A c \in Calls :
        TableReturned(c) /\ self.cls = "ppt_shapes" /\ Jittered(c) =>
            TheTable(c).confidence_score < 100

\* the shapes of S that share the row, or the column, of shape i
RowMates(S, i) ==
    {j \in 1..Len(S) : Abs(S[j]["top"][2] - S[i]["top"][2]) <= self.y_tolerance}

ColMates(S, i) ==
    {j \in 1..Len(S) : Abs(S[j]["left"][2] - S[i]["left"][2]) <= self.x_tolerance}

VisualRows(S) == {RowMates(S, i) : i \in 1..Len(S)}
VisualCols(S) == {ColMates(S, i) : i \in 1..Len(S)}

\* a full grid with jitter inside tolerance: the rows and the columns
\* partition the shapes (within a row tops differ by at most y_tolerance,
\* between rows by more; likewise the lefts), and every row meets every
\* column in exactly one shape
JitteredGrid(S) ==
    /\ S # <<>>
    /\ \A i \in 1..Len(S) : ValidShape(S[i])
    /\ \A i \in 1..Len(S), j \in 1..Len(S) :
          /\ j \in RowMates(S, i) => RowMates(S, j) = RowMates(S, i)
          /\ j \in ColMates(S, i) => ColMates(S, j) = ColMates(S, i)
    /\ \A r \in VisualRows(S), k \in VisualCols(S) : Cardinality(r \cap k) = 1
    /\ Cardinality(VisualRows(S)) >= self.min_rows
    /\ Cardinality(VisualCols(S)) >= self.min_cols

(***************************************************************************)
(* C22: a full grid of R >= min_rows rows and C >= min_cols columns with   *)
(* jitter inside tolerance is detected as a table of R rows and C columns  *)
(* whose confidence_score, in hundredths, lies between 70 and 100.         *)
(***************************************************************************)
C22_JitterInsideTolerance ==
    \A c \in Calls :
        Finished(c) /\ JitteredGrid(shapes[c]) =>
            /\ Len(ResultTables(c)) = 1
            /\ Len(TheTable(c).data) = Cardinality(VisualRows(shapes[c]))
            /\ \A r \in 1..Len(TheTable(c).data) :
                  Len(TheTable(c).data[r]) = Cardinality(VisualCols(shapes[c]))
            /\ 70 <= TheTable(c).confidence_score
            /\ TheTable(c).confidence_score <= 100

\* the place in the sorted list of the first-placed shape of a group
FirstPlaced(sorted, group) ==
    LET members == Range(group)
    IN MinOf({i \in 1..Len(sorted) : sorted[i] \in members})

\* the group that holds the shape at place i of the sorted list
GroupOf(sorted, groups, i) ==
    CHOOSE g \in 1..Len(groups) : sorted[i] \in Range(groups[g])

\* groups are the anchor-based clusters of the sorted list along an axis
AnchorClustered(sorted, groups, axis, tol) ==
    LET anchor(g) == sorted[FirstPlaced(sorted, groups[g])][axis]
    IN /\ \A g \in 1..Len(groups) : groups[g] # <<>>
       \* every shape belongs to exactly one group
       /\ Len(Flatten(groups)) = Len(sorted)
       /\ \A i \in 1..Len(sorted) :
             Cardinality({g \in 1..Len(groups) : sorted[i] \in Range(groups[g])}) = 1
       \* every value lies in [anchor, anchor + tol]
       /\ \A g \in 1..Len(groups) : \A k \in 1..Len(groups[g]) :
             /\ anchor(g) <= groups[g][k][axis]
             /\ groups[g][k][axis] <= anchor(g) + tol
       \* anchors of consecutive groups differ by more than tol
       /\ \A g \in 1..(Len(groups) - 1) : anchor(g + 1) - anchor(g) > tol
       \* a drift chain splits
       /\ \A i \in 1..(Len(sorted) - 1) :
             /\ sorted[i + 1][axis] - sorted[i][axis] <= tol
             /\ sorted[i + 1][axis] > anchor(GroupOf(sorted, groups, i)) + tol
             => /\ GroupOf(sorted, groups, i + 1) = GroupOf(sorted, groups, i) + 1
                /\ FirstPlaced(sorted, groups[GroupOf(sorted, groups, i + 1)]) = i + 1

(***************************************************************************)
(* C23: anchor-based clustering: after _cluster_rows on the shapes sorted  *)
(* by (top, left) every shape belongs to exactly one row, every top of a   *)
(* row lies in [anchor, anchor + y_tolerance] for the top of the row's     *)
(* first-placed shape, anchors of consecutive rows differ by more than     *)
(* y_tolerance, and a shape within y_tolerance of the shape before it but  *)
(* more than y_tolerance above the anchor starts a new row; likewise       *)
(* _cluster_columns with lefts and x_tolerance.                            *)
(***************************************************************************)
C23_AnchorClustering ==
    \A c \in Calls :
        /\ pc[c] = "row_detect" =>
              AnchorClustered(sorted_shapes[c], rows[c], "top", self.y_tolerance)
        /\ pc[c] = "col_detect" =>
              AnchorClustered(sorted_shapes[c], columns[c], "left", self.x_tolerance)
        \* and on every filtered input, whatever the strategies make of it
        /\ pc[c] = "check_count" =>
              LET by_top == Sorted(validated_shapes[c], "top_left")
                  by_left == Sorted(validated_shapes[c], "left_top")
              IN /\ AnchorClustered(by_top, cluster_rows(self, by_top),
                                    "top", self.y_tolerance)
                 /\ AnchorClustered(by_left, cluster_columns(self, by_left),
                                    "left", self.x_tolerance)

\* rows clustered from a drift chain: a shape within y_tolerance of the
\* shape before it opened a new row
C23_Witness ==
    \E c \in Calls :
        /\ pc[c] = "row_detect"
        /\ \E i \in 1..(Len(sorted_shapes[c]) - 1) :
              /\ sorted_shapes[c][i + 1].top - sorted_shapes[c][i].top <= self.y_tolerance
              /\ sorted_shapes[c][i + 1].top > sorted_shapes[c][i].top
              /\ GroupOf(sorted_shapes[c], rows[c], i + 1)
                    # GroupOf(sorted_shapes[c], rows[c], i)

\* centers are the positions detected among the values of the shapes along
\* an axis
CentersDetected(centers, members, axis, tol) ==
    LET values == {members[i][axis] : i \in 1..Len(members)}
    IN /\ centers # <<>>
       /\ \A k \in 1..(Len(centers) - 1) : centers[k + 1] - centers[k] > tol
       /\ \A k \in 1..(Len(centers) - 1) : centers[k] < centers[k + 1]
       /\ centers[1] = MinOf(values)
       /\ \A k \in 1..Len(centers) : centers[k] \in values
       /\ \A v \in values :
             \E k \in 1..Len(centers) : centers[k] <= v /\ v <= centers[k] + tol

(***************************************************************************)
(* C24: column-center detection: the list _detect_columns returns is       *)
(* strictly increasing, consecutive centers differ by more than            *)
(* x_tolerance, its first element is the least left of all shapes, every   *)
(* center is the left of some shape, and every shape's left lies in        *)
(* [c, c + x_tolerance] for some center c; likewise                        *)
(* _detect_rows_in_columns with tops and y_tolerance.                      *)
(***************************************************************************)
C24_CenterDetection ==
    \A c \in Calls :
        /\ pc[c] = "row_validate" =>
              CentersDetected(columns[c], Flatten(rows[c]), "left", self.x_tolerance)
        /\ pc[c] = "col_validate" =>
              CentersDetected(rows[c], Flatten(columns[c]), "top", self.y_tolerance)
        \* and on every filtered input, whatever the strategies make of it
        /\ pc[c] = "check_count" /\ validated_shapes[c] # <<>> =>
              /\ CentersDetected(detect_columns(self, <<validated_shapes[c]>>),
                                 validated_shapes[c], "left", self.x_tolerance)
              /\ CentersDetected(detect_rows_in_columns(self, <<validated_shapes[c]>>),
                                 validated_shapes[c], "top", self.y_tolerance)

\* columns detected where a left that is no center was merged into the
\* column before a further column
C24_Witness ==
    \E c \in Calls :
        /\ pc[c] = "row_validate"
        /\ \E k \in 1..(Len(columns[c]) - 1) :
              \E i \in 1..Len(sorted_shapes[c]) :
                  /\ columns[c][k] < sorted_shapes[c][i].left
                  /\ sorted_shapes[c][i].left < columns[c][k + 1]

\* the least length that at least k of the groups do not exceed
LengthOfRank(groups, k) ==
    MinOf({n \in 0..SumSeq([i \in 1..Len(groups) |-> Len(groups[i])]) :
              Cardinality({i \in 1..Len(groups) : Len(groups[i]) <= n}) >= k})

\* at least 70% of the groups hold a number of shapes within 1 of the
\* median (the mean of the two middle lengths when the groups are even in
\* number)
ConsistentLengths(groups) ==
    LET n == Len(groups)
        median2 == LengthOfRank(groups, (n + 1) \div 2)
                   + LengthOfRank(groups, (n \div 2) + 1)
        near == {i \in 1..n : /\ 2 * Len(groups[i]) <= median2 + 2
                              /\ 2 * Len(groups[i]) >= median2 - 2}
    IN 10 * Cardinality(near) >= 7 * n

\* consistent lengths, and the shapes are at least 70% of groups x positions
PassesGate(groups, positions) ==
    /\ ConsistentLengths(groups)
    /\ 10 * Len(Flatten(groups)) >= 7 * Len(groups) * Len(positions)

(***************************************************************************)
(* C25: validation gate: the row-based strategy returns a table only if at *)
(* least 70% of the row clusters hold a number of shapes within 1 of the   *)
(* median and the shapes are at least 0.70 * rows * columns; the column-   *)
(* based strategy only if the same holds of the column clusters.           *)
(***************************************************************************)
C25_ValidationGate ==
    \A c \in Calls :
        TableReturned(c) /\ self.cls = "ppt_shapes" =>
            /\ tried[c] = <<"row">> => PassesGate(rows[c], columns[c])
            /\ tried[c] = <<"row", "column">> => PassesGate(columns[c], rows[c])

\* a table of the column-based strategy whose columns differ in length
C25_Witness ==
    \E c \in Calls :
        /\ TableReturned(c) /\ self.cls = "ppt_shapes"
        /\ tried[c] = <<"row", "column">>
        /\ \E i \in 1..Len(columns[c]) : Len(columns[c][i]) # Len(columns[c][1])

\* the component 1.0 of an empty list of deviations
PerfectComponent == [raised |-> FALSE, num |-> 1, den |-> 1]

\* the deviations the scoring of call c collects: within the clusters of
\* its strategy, and across them at each detected position
WithinDevs(c) ==
    IF tried[c] = <<"row">> THEN Spreads(rows[c], "top")
    ELSE Spreads(columns[c], "left")

AcrossDevs(c) ==
    IF tried[c] = <<"row">>
    THEN Spreads(NearGroups(Flatten(rows[c]), columns[c], "left", self.x_tolerance),
                 "left")
    ELSE Spreads(NearGroups(Flatten(columns[c]), rows[c], "top", self.y_tolerance),
                 "top")

WithinTol(c) == IF tried[c] = <<"row">> THEN self.y_tolerance ELSE self.x_tolerance
AcrossTol(c) == IF tried[c] = <<"row">> THEN self.x_tolerance ELSE self.y_tolerance

\* the scoring of call c has returned or raised
Scored(c) == pc[c] \in {"row_extract", "done", "raised"}

\* the score of the components a and b for the shapes of call c
ScoreOf(c, a, b) ==
    BlendScore(a, b, Len(validated_shapes[c]), Len(rows[c]) * Len(columns[c])).value

(***************************************************************************)
(* C26: empty-deviation guard of the ppt_shapes scoring: when no row       *)
(* cluster holds more than one shape the row-alignment component is        *)
(* exactly 1.0, when no column holds more than one shape the column-       *)
(* alignment component is exactly 1.0, and for such a component no         *)
(* division is made: the scoring raises no ZeroDivisionError on account of *)
(* it, even when its tolerance is 0.                                       *)
(***************************************************************************)
C26_EmptyDeviationGuard ==
    \A c \in Calls :
        Scored(c) =>
            /\ WithinDevs(c).n = 0 /\ (AcrossDevs(c).n = 0 \/ AcrossTol(c) > 0) =>
                  /\ pc[c] # "raised"
                  /\ confidence[c] =
                        ScoreOf(c, PerfectComponent,
                                AlignmentScore(AcrossDevs(c), AcrossTol(c)))
            /\ AcrossDevs(c).n = 0 /\ (WithinDevs(c).n = 0 \/ WithinTol(c) > 0) =>
                  /\ pc[c] # "raised"
                  /\ confidence[c] =
                        ScoreOf(c, AlignmentScore(WithinDevs(c), WithinTol(c)),
                                PerfectComponent)

\* rows of one shape each scored under y_tolerance = 0, the columns holding
\* several shapes
C26_Witness ==
    \E c \in Calls :
        /\ Scored(c) /\ pc[c] # "raised"
        /\ tried[c] = <<"row">> /\ self.y_tolerance = 0
        /\ WithinDevs(c).n = 0 /\ AcrossDevs(c).n > 0

\* the input of call c passed the filter
Filtered(c) == ~validate_shapes(shapes[c]).raised

(***************************************************************************)
(* C27: on every input the row-based and the column-based strategy find    *)
(* the same number of rows and the same number of columns, hence the same  *)
(* density; so the column-based fallback returns a table only for inputs   *)
(* on which the consistency check of the row lengths fails and that of the *)
(* column lengths passes.                                                  *)
(***************************************************************************)
C27_StrategiesAgree ==
    \A c \in Calls :
        Finished(c) /\ self.cls = "ppt_shapes" /\ Filtered(c) =>
            LET row_clusters == RowClustersOf(c)
                col_positions == detect_columns(self, row_clusters)
                col_clusters == ColClustersOf(c)
                row_positions == detect_rows_in_columns(self, col_clusters)
            IN /\ Len(row_clusters) = Len(row_positions)
               /\ Len(col_positions) = Len(col_clusters)
               /\ Len(Flatten(row_clusters)) = Len(Flatten(col_clusters))
               /\ TableReturned(c) /\ tried[c] = <<"row", "column">> =>
                     /\ ~ConsistentLengths(row_clusters)
                     /\ ConsistentLengths(col_clusters)

\* a table of the column-based fallback
C27_Witness ==
    \E c \in Calls :
        /\ TableReturned(c) /\ self.cls = "ppt_shapes"
        /\ tried[c] = <<"row", "column">>
        /\ Len(RowClustersOf(c)) = Len(rows[c])
        /\ Len(ColClustersOf(c)) = Len(columns[c])

\* the row-based strategy of call c holds its rows and detected columns
RowsAndColumns(c) ==
    \/ pc[c] \in {"row_validate", "row_score", "row_extract"}
    \/ pc[c] = "done" /\ tried[c] = <<"row">> /\ self.cls = "ppt_shapes"

\* the distance of a left to its nearest center
MinDist(left, centers) == MinOf({Abs(left - centers[k]) : k \in 1..Len(centers)})

(***************************************************************************)
(* C28: in the row-based extraction every shape of every row is within     *)
(* x_tolerance of its nearest detected column center: for the centers      *)
(* _detect_columns found on the same rows, the branch that drops a shape   *)
(* farther than the tolerance from every center is never taken.            *)
(***************************************************************************)
C28_NoShapeDropped ==
    \A c \in Calls :
        RowsAndColumns(c) =>
            \A r \in 1..Len(rows[c]) : \A i \in 1..Len(rows[c][r]) :
                /\ MinDist(rows[c][r][i].left, columns[c]) <= self.x_tolerance
                /\ Abs(rows[c][r][i].left
                       - columns[c][Nearest(rows[c][r][i].left, columns[c])])
                      <= self.x_tolerance

\* a row-based table extracted from rows that hold a shape whose left is
\* no center
C28_Witness ==
    \E c \in Calls :
        /\ pc[c] = "done" /\ tried[c] = <<"row">> /\ TableReturned(c)
        /\ \E r \in 1..Len(rows[c]) : \E i \in 1..Len(rows[c][r]) :
              MinDist(rows[c][r][i].left, columns[c]) > 0

\* the cells of data that hold the text t
CellsWith(data, t) ==
    {x \in (1..Len(data)) \X (1..Len(data[1])) : data[x[1]][x[2]] = t}

\* the trimmed texts of the valid shapes of S are pairwise distinct
DistinctTexts(S) ==
    \A i \in 1..Len(S), j \in 1..Len(S) :
        i # j /\ ValidShape(S[i]) /\ ValidShape(S[j]) =>
            Strip(S[i]["text"][2]) # Strip(S[j]["text"][2])

(***************************************************************************)
(* C29: in a table ppt_shapes returns, by the row-based or by the column-  *)
(* based strategy, no shape's text is placed in more than one cell: the    *)
(* cells that are not None are no more than the shapes that took part,     *)
(* and a text that only one shape carries fills at most one cell.          *)
(***************************************************************************)
C29_NoShapeTwice ==
    \A c \in Calls :
        TableReturned(c) /\ self.cls = "ppt_shapes" =>
            /\ Populated(TheTable(c).data) <= Len(validated_shapes[c])
            /\ DistinctTexts(shapes[c]) =>
                  \A i \in 1..Len(validated_shapes[c]) :
                      Cardinality(CellsWith(TheTable(c).data,
                                            Str(Strip(validated_shapes[c][i].text)))) <= 1

\* the text in a cell is the trimmed, non-empty text of a shape of the
\* group, and that shape is a valid shape of the input S
FromGroup(cell, group, S) ==
    \E i \in 1..Len(group) :
        /\ cell = Str(Strip(group[i].text))
        /\ Strip(group[i].text) # <<>>
        /\ \E j \in 1..Len(S) : ValidShape(S[j]) /\ ShapeGeometry(S[j]) = group[i]

\* the position of a cluster along an axis: the least value of its shapes
PositionOf(group, axis) == MinOf({group[i][axis] : i \in 1..Len(group)})

Increasing(q) == \A k \in 1..(Len(q) - 1) : q[k] < q[k + 1]

\* the row clusters and column positions behind a row-based table, the row
\* positions and column clusters behind a column-based one
RowBased(c) == self.cls = "legacy" \/ tried[c] = <<"row">>

ClustersBehind(c) ==
    IF self.cls = "legacy" THEN RowClustersOf(c)
    ELSE IF RowBased(c) THEN rows[c] ELSE columns[c]

PositionsBehind(c) ==
    IF self.cls = "legacy" THEN detect_columns(self, RowClustersOf(c))
    ELSE IF RowBased(c) THEN columns[c] ELSE rows[c]

(***************************************************************************)
(* C30: cell provenance: every cell of a returned table that is not None   *)
(* is the trimmed, non-empty text of an input shape of row cluster r (row- *)
(* based) or of column cluster c (column-based); no cell is the empty      *)
(* string; the rows of data follow strictly increasing row positions and   *)
(* its columns strictly increasing column positions.                       *)
(***************************************************************************)
C30_CellProvenance ==
    \A c \in Calls :
        TableReturned(c) =>
            LET data == TheTable(c).data
                clusters == ClustersBehind(c)
                positions == PositionsBehind(c)
                nrows == IF RowBased(c) THEN Len(clusters) ELSE Len(positions)
                ncols == IF RowBased(c) THEN Len(positions) ELSE Len(clusters)
            IN /\ Len(data) = nrows
               /\ \A r \in 1..nrows :
                     /\ Len(data[r]) = ncols
                     /\ \A k \in 1..ncols :
                           /\ data[r][k] # Str(<<>>)
                           /\ data[r][k] # NoneVal =>
                                 FromGroup(data[r][k],
                                           clusters[IF RowBased(c) THEN r ELSE k],
                                           shapes[c])
               /\ Increasing(positions)
               /\ Increasing([g \in 1..Len(clusters) |->
                                 PositionOf(clusters[g],
                                            IF RowBased(c) THEN "top" ELSE "left")])

\* a column-based table with a cell whose text was trimmed
C30_Witness ==
    \E c \in Calls :
        /\ TableReturned(c) /\ tried[c] = <<"row", "column">>
        /\ \E k \in 1..Len(columns[c]) : \E i \in 1..Len(columns[c][k]) :
              /\ Strip(columns[c][k][i].text) # columns[c][k][i].text
              /\ CellsWith(TheTable(c).data, Str(Strip(columns[c][k][i].text))) # {}

====
